---- MODULE Spec2Model ----
(***************************************************************************)
(* Striker Analytics: the Application State Controller (App.tsx), the      *)
(* Analysis Request Adapter (geminiService.ts analyzeVideo), File Intake   *)
(* (VideoUploader.tsx) and the Media Capture Controller                    *)
(* (CameraCapture.tsx) as one state machine.                               *)
(*                                                                         *)
(* Every handler of the source is an operator from a state record w to the *)
(* state record after the handler has run; an action applies one handler   *)
(* to the current state and then commits the render (mount and unmount     *)
(* effects of the child components).                                       *)
(***************************************************************************)
EXTENDS Integers, Sequences, FiniteSets, TLC

VARIABLES
    status,        \* App: useState<AppStatus>
    inputMode,     \* App: useState<InputMode>
    result,        \* App: useState<AnalysisResponse | null>
    selectedFile,  \* App: useState<File | null>
    videoUrl,      \* App: useState<string | null>
    errorMsg,      \* App: useState<string | null>
    env,           \* the environment: API_KEY set, navigator.mediaDevices present
    requests,      \* handleAnalyze invocations awaiting analyzeVideo
    nReq,          \* number of handleAnalyze invocations so far
    cam,           \* CameraCapture instances (state and refs of each mount)
    cur,           \* the mounted CameraCapture instance, 0 when none
    rec,           \* MediaRecorder objects, one per recording session
    streams,       \* MediaStream objects returned by getUserMedia
    urls,          \* object URLs created by URL.createObjectURL
    uploader,      \* VideoUploader: mounted, useState preview
    view           \* AnalysisResult: mounted, useState language, exported document

vars == <<status, inputMode, result, selectedFile, videoUrl, errorMsg, env,
          requests, nReq, cam, cur, rec, streams, urls, uploader, view>>

----------------------------------------------------------------------------
(* Bounds of the model *)

MaxRequests == 2
MaxMounts == 1
MaxSessions == 1
MaxSelections == 2

(* Program constants *)

CountdownFrom == 5
MaxRecordingTime == 10

----------------------------------------------------------------------------
(* Strings: String.prototype.toLowerCase, includes, startsWith *)

Lower1(c) ==
    CASE c = "A" -> "a" [] c = "B" -> "b" [] c = "C" -> "c" [] c = "D" -> "d"
      [] c = "E" -> "e" [] c = "F" -> "f" [] c = "G" -> "g" [] c = "H" -> "h"
      [] c = "I" -> "i" [] c = "J" -> "j" [] c = "K" -> "k" [] c = "L" -> "l"
      [] c = "M" -> "m" [] c = "N" -> "n" [] c = "O" -> "o" [] c = "P" -> "p"
      [] c = "Q" -> "q" [] c = "R" -> "r" [] c = "S" -> "s" [] c = "T" -> "t"
      [] c = "U" -> "u" [] c = "V" -> "v" [] c = "W" -> "w" [] c = "X" -> "x"
      [] c = "Y" -> "y" [] c = "Z" -> "z" [] OTHER -> c

RECURSIVE LowerRange(_, _, _)
LowerRange(s, a, b) ==
    IF a > b THEN ""
    ELSE IF a = b THEN Lower1(SubSeq(s, a, a))
    ELSE LET m == (a + b) \div 2
         IN  LowerRange(s, a, m) \o LowerRange(s, m + 1, b)

toLowerCase(s) == LowerRange(s, 1, Len(s))

includes(s, sub) ==
    \E i \in 1..(Len(s) - Len(sub) + 1) : SubSeq(s, i, i + Len(sub) - 1) = sub

startsWith(s, prefix) ==
    Len(prefix) <= Len(s) /\ SubSeq(s, 1, Len(prefix)) = prefix

----------------------------------------------------------------------------
(* Values *)

Null == "null"

NoFile == [src |-> "none", id |-> 0, type |-> ""]
UploadFiles ==
    { [src |-> "upload", id |-> 1, type |-> "video/mp4"],
      [src |-> "upload", id |-> 2, type |-> "image/png"] }
RecordedFile(s) == [src |-> "capture", id |-> s, type |-> "video/webm"]

(* Object URLs.  URL.createObjectURL returns a new URL on every call: a URL is
   its position in urls and the file it refers to; urls records who created it
   and whether URL.revokeObjectURL has released it *)
NoUrl == [blob |-> NoFile, id |-> 0]
createObjectURL(w, file, by) ==
    [w EXCEPT !.urls = Append(@, [blob |-> file, by |-> by, revoked |-> FALSE])]
objectUrl(w) == [blob |-> w.urls[Len(w.urls)].blob, id |-> Len(w.urls)]
revokeObjectURL(w, url) ==
    IF url = NoUrl THEN w ELSE [w EXCEPT !.urls[url.id].revoked = TRUE]

(* JavaScript values of the fields of an AnalysisResponse (types.ts lines
   14-31): an absent field reads as undefined *)
Undefined == [t |-> "undefined"]
Num(n) == [t |-> "number", v |-> n]
Str(s) == [t |-> "string", v |-> s]
Arr(a) == [t |-> "array", v |-> a]
Obj(o) == [t |-> "object", v |-> o]

(* A response with every field of the schema (geminiService.ts lines 5-70) *)
FullBody ==
    [form_score |-> Num(7),
     score_label |-> Str("Good"),
     score_color |-> Str("yellow"),
     action_detected |-> Str("Instep Drive"),
     key_strengths |-> Arr(<<"Strong contact">>),
     areas_for_improvement |->
         Arr(<<[issue |-> "Critical: Leaning back", drill |-> "Wall Taps",
                instructions |-> <<"Stand 2m from wall", "Strike with instep">>]>>),
     technical_data |->
         Obj([torso_angle |-> [value |-> 95, target |-> 95, status |-> "optimal"],
              plant_foot_offset |-> [value |-> 12, target |-> 7, status |-> "wide"]]),
     coaching_tips |->
         Obj([en |-> "Great effort!", mk |-> "Odlichen trud!", es |-> "Buen esfuerzo!"])]

OptionalFields == DOMAIN FullBody

(* The response in which exactly the fields of present are present *)
Body(present) ==
    [f \in OptionalFields |-> IF f \in present THEN FullBody[f] ELSE Undefined]

NoBody == Body({})

NoResult == [status |-> "none", file |-> NoFile, body |-> NoBody]

(* Messages of App.tsx handleAnalyze *)
UnclearMsg == "Analysis failed: The video was unclear or not a recognized football drill. Please try again with a clearer video."
UnexpectedMsg == "An unexpected error occurred during analysis. Please try again."
ConfigMsg == "Configuration Error: API Key is missing or invalid."
SafetyMsg == "Analysis blocked: The video content was flagged by safety filters. Please ensure the video clearly shows sports training."
RateLimitMsg == "Usage limit exceeded. The AI service is busy, please try again in a few minutes."
OverloadedMsg == "The AI service is currently overloaded. Please wait a moment and try again."
NetworkMsg == "Network Error: Please check your internet connection."
DataMsg == "Data Error: The AI response could not be processed. Please try a clearer video clip."

(* Messages thrown by geminiService.ts *)
ApiKeyMissingThrown == "API Key is missing. Please check your environment configuration."
NoResponseThrown == "No response from AI"
ReadFailedThrown == "Failed to read file"

Err(m) == [isError |-> TRUE, message |-> m]

----------------------------------------------------------------------------
(* The state as one record, and its assignment to the variables *)

St ==
    [status |-> status, inputMode |-> inputMode, result |-> result,
     selectedFile |-> selectedFile, videoUrl |-> videoUrl, errorMsg |-> errorMsg,
     env |-> env, requests |-> requests, nReq |-> nReq,
     cam |-> cam, cur |-> cur, rec |-> rec, streams |-> streams,
     urls |-> urls, uploader |-> uploader, view |-> view]

Apply(w) ==
    /\ status' = w.status
    /\ inputMode' = w.inputMode
    /\ result' = w.result
    /\ selectedFile' = w.selectedFile
    /\ videoUrl' = w.videoUrl
    /\ errorMsg' = w.errorMsg
    /\ env' = w.env
    /\ requests' = w.requests
    /\ nReq' = w.nReq
    /\ cam' = w.cam
    /\ cur' = w.cur
    /\ rec' = w.rec
    /\ streams' = w.streams
    /\ urls' = w.urls
    /\ uploader' = w.uploader
    /\ view' = w.view

----------------------------------------------------------------------------
(* Analysis Request Adapter: geminiService.ts analyzeVideo *)

SuccessText == "{\"status\":\"success\",\"form_score\":7}"
ErrorText == "{\"status\":\"error\"}"
NoStatusText == "{\"form_score\":7}"
MalformedText == "<html>Bad Gateway</html>"
EmptyText == ""

ResponseTexts == {SuccessText, ErrorText, NoStatusText, MalformedText, EmptyText}

(* JSON.parse on the response bodies above: the parsed object, or the
   SyntaxError V8 throws *)
JSONparse(text) ==
    CASE text = SuccessText ->
             [ok |-> TRUE,
              data |-> [status |-> "success", body |-> Body({"form_score", "coaching_tips"})],
              err |-> Err("")]
      [] text = ErrorText ->
             [ok |-> TRUE, data |-> [status |-> "error", body |-> NoBody], err |-> Err("")]
      [] text = NoStatusText ->
             [ok |-> TRUE, data |-> [status |-> "undefined", body |-> Body({"form_score"})],
              err |-> Err("")]
      [] text = EmptyText -> [ok |-> FALSE, data |-> [status |-> "undefined", body |-> NoBody],
                              err |-> Err("Unexpected end of JSON input")]
      [] OTHER -> [ok |-> FALSE, data |-> [status |-> "undefined", body |-> NoBody],
                   err |-> Err("Unexpected token '<', \"<html>Bad \"... is not valid JSON")]

(* Failures of ai.models.generateContent (transport, quota, overload, safety) *)
TransportErrors ==
    { Err("got status: 429 Too Many Requests"),
      Err("429 Too Many Requests: request blocked by the rate limiter"),
      Err("You exceeded your current quota, please check your plan and billing details."),
      Err("got status: 503 Service Unavailable. The model is overloaded."),
      Err("Failed to fetch"),
      Err("Candidate was blocked due to SAFETY"),
      Err("API key not valid. Please pass a valid API key."),
      Err("Oops"),
      [isError |-> FALSE, message |-> "rejected with a plain object"] }

(* Failures of fileToGenerativePart: reader.error, or a non-string result *)
EncodeErrors ==
    { Err(ReadFailedThrown),
      Err("A requested file or directory could not be found at the time an operation was processed.") }

(* lines 141-145: the response text to a returned value or a thrown error *)
analyzeVideoRespond(text) ==
    IF text = ""
    THEN [kind |-> "throw", data |-> [status |-> "undefined", body |-> NoBody],
          err |-> Err(NoResponseThrown)]
    ELSE LET p == JSONparse(text)
         IN  IF p.ok
             THEN [kind |-> "return", data |-> p.data, err |-> Err("")]
             ELSE [kind |-> "throw", data |-> p.data, err |-> p.err]

(* A faulty variant of analyzeVideoStart: the credential is not looked at *)
analyzeVideoStartNoKeyCheck(w, id, file) ==
    [id |-> id, file |-> file, pc |-> "encode", err |-> Err(""), text |-> "",
     read |-> 1, sent |-> 0]

(* lines 108-114: the synchronous start of analyzeVideo.  read and sent are
   history: the calls of fileToGenerativePart and of generateContent made by
   this invocation *)
analyzeVideoStart(w, id, file) ==
    IF ~w.env.apiKey
    THEN [id |-> id, file |-> file, pc |-> "rejected", err |-> Err(ApiKeyMissingThrown),
          text |-> "", read |-> 0, sent |-> 0]
    ELSE [id |-> id, file |-> file, pc |-> "encode", err |-> Err(""), text |-> "",
          read |-> 1, sent |-> 0]

(* The request r of w.requests replaced by r2 *)
setRequest(w, r, r2) == [w EXCEPT !.requests = (@ \ {r}) \cup {r2}]

(* lines 114-139: the file is encoded, generateContent is called *)
generateContent(w, r) ==
    setRequest(w, r, [r EXCEPT !.pc = "request", !.sent = @ + 1])

(* A faulty variant of generateContentRejected: a failed request is sent
   once more before the failure is thrown *)
generateContentRejectedRetries(w, r, err) ==
    IF r.sent < 2
    THEN setRequest(w, r, [r EXCEPT !.sent = @ + 1])
    ELSE setRequest(w, r, [r EXCEPT !.pc = "rejected", !.err = err])

(* lines 147-150: generateContent rejected, the catch block rethrows *)
generateContentRejected(w, r, err) ==
    setRequest(w, r, [r EXCEPT !.pc = "rejected", !.err = err])

(* lines 118-141: generateContent resolved with a response *)
generateContentResolved(w, r, text) ==
    setRequest(w, r, [r EXCEPT !.pc = "responded", !.text = text])

(* lines 153-171: fileToGenerativePart rejected *)
fileToGenerativePartRejected(w, r, err) ==
    setRequest(w, r, [r EXCEPT !.pc = "rejected", !.err = err])

----------------------------------------------------------------------------
(* Application State Controller: App.tsx *)

(* lines 59-79: the message shown for a caught error *)
catchMessage(err) ==
    IF ~err.isError THEN UnexpectedMsg
    ELSE LET lowerMsg == toLowerCase(err.message)
         IN  IF includes(lowerMsg, "api key") THEN ConfigMsg
             ELSE IF includes(lowerMsg, "safety") \/ includes(lowerMsg, "blocked") THEN SafetyMsg
             ELSE IF includes(lowerMsg, "quota") \/ includes(lowerMsg, "429") THEN RateLimitMsg
             ELSE IF includes(lowerMsg, "503") \/ includes(lowerMsg, "overloaded") THEN OverloadedMsg
             ELSE IF includes(lowerMsg, "fetch") \/ includes(lowerMsg, "network") THEN NetworkMsg
             ELSE IF includes(lowerMsg, "json") THEN DataMsg
             ELSE IF Len(err.message) > 5 /\ Len(err.message) < 200 THEN err.message
             ELSE UnexpectedMsg

ThrownErrors ==
    TransportErrors \cup EncodeErrors
        \cup {Err(ApiKeyMissingThrown), Err(NoResponseThrown), Err(UnclearMsg)}
        \cup {JSONparse(t).err : t \in ResponseTexts}

catchMessageOf == [e \in ThrownErrors |-> catchMessage(e)]

----------------------------------------------------------------------------
(* Media Capture Controller: CameraCapture.tsx *)

(* A CameraCapture instance as first rendered (lines 9-22); 0 stands for a
   null ref or a null countdownValue.  videoEl: videoRef.current is set.
   acq: a getUserMedia call of startCamera is pending.  cdWait: the value
   whose one-second wait of handleStartSequence is pending, 0 when none.
   intervalOn: the window.setInterval timer of startRecording is running.
   ticks, recTicks: history, the countdown values emitted by the current start
   sequence and the interval ticks fired since the recording started. *)
NewCam ==
    [mounted |-> TRUE, isRecording |-> FALSE, isCountingDown |-> FALSE,
     countdownValue |-> 0, useTimer |-> TRUE, error |-> Null, recordingTime |-> 0,
     videoEl |-> TRUE, srcObject |-> 0, streamRef |-> 0, mediaRecorderRef |-> 0,
     recordingIntervalRef |-> 0, intervalOn |-> FALSE, acq |-> FALSE, cdWait |-> 0,
     ticks |-> <<>>, recTicks |-> 0, seqTimer |-> FALSE]

(* An unmounted instance: React has dropped its state and nulled videoRef;
   its refs, its pending getUserMedia call and its pending countdown wait
   live on in the closures that hold them *)
Unmounted ==
    [NewCam EXCEPT !.mounted = FALSE, !.videoEl = FALSE]

(* Failures of navigator.mediaDevices.getUserMedia *)
CameraErrors ==
    { [name |-> "NotAllowedError", message |-> "Permission denied"],
      [name |-> "NotAllowedError", message |-> "Permission dismissed"],
      [name |-> "NotFoundError", message |-> "Requested device not found"],
      [name |-> "NotReadableError", message |-> "Could not start video source"],
      [name |-> "AbortError", message |-> "The permission request was dismissed"],
      [name |-> "OverconstrainedError", message |-> ""] }

CameraUnsupportedMsg == "Camera API not supported in this browser."
CameraDefaultMsg == "Could not access camera. Please ensure permissions are granted."
CameraDeniedMsg == "Camera permission was denied. Please allow camera access in your browser settings."
CameraNotFoundMsg == "No camera found on this device."
CameraBusyMsg == "Camera is currently in use by another application."
CameraDismissedMsg == "Camera permission request was dismissed. Please reload and allow access."

(* lines 50-60 *)
cameraErrorMessage(err) ==
    IF err.name = "NotAllowedError" \/ err.name = "PermissionDeniedError" THEN CameraDeniedMsg
    ELSE IF err.name = "NotFoundError" THEN CameraNotFoundMsg
    ELSE IF err.name = "NotReadableError" THEN CameraBusyMsg
    ELSE IF err.message # "" /\ includes(toLowerCase(err.message), "dismissed") THEN CameraDismissedMsg
    ELSE CameraDefaultMsg

cameraErrorMessageOf == [e \in CameraErrors |-> cameraErrorMessage(e)]

(* A state setter of instance i: React drops the update of an unmounted
   component; the error view (lines 183-209) renders no <video>, so
   videoRef.current is null while an error is shown *)
SetCam(w, i, upd) ==
    IF w.cam[i].mounted
    THEN [w EXCEPT !.cam[i] = upd @@ @]
    ELSE w

SetError(w, i, msg) ==
    IF w.cam[i].mounted
    THEN [w EXCEPT !.cam[i].error = msg,
                   !.cam[i].videoEl = (msg = Null),
                   !.cam[i].srcObject = IF msg = Null /\ @ # 0 /\ w.cam[i].videoEl THEN @ ELSE 0]
    ELSE w

(* track.stop() on every track of a stream *)
stopTracks(w, sid) ==
    IF sid = 0 THEN w ELSE [w EXCEPT !.streams[sid] = "stopped"]

(* lines 24-37: startCamera up to its await *)
startCamera(w, i) ==
    LET w1 == SetError(w, i, Null)
    IN  IF ~w.env.mediaDevices
        THEN SetError(w1, i, CameraUnsupportedMsg)
        ELSE [stopTracks(w1, w1.cam[i].streamRef) EXCEPT !.cam[i].acq = TRUE]

(* lines 38-47: getUserMedia resolved with a new stream *)
startCameraResolved(w, i) ==
    LET sid == Len(w.streams) + 1
    IN  [w EXCEPT !.streams = Append(@, "live"),
                  !.cam[i].acq = FALSE,
                  !.cam[i].streamRef = sid,
                  !.cam[i].srcObject = IF w.cam[i].videoEl THEN sid ELSE @]

(* lines 48-63: getUserMedia rejected *)
startCameraRejected(w, i, err) ==
    SetError([w EXCEPT !.cam[i].acq = FALSE], i, cameraErrorMessageOf[err])

(* lines 66-68: the effect of the first render *)
mountCamera(w) ==
    LET i == Len(w.cam) + 1
    IN  startCamera([w EXCEPT !.cam = Append(@, NewCam), !.cur = i], i)

(* lines 69-76: the effect's cleanup; React then nulls videoRef.current *)
cleanupCamera(w) ==
    LET i == w.cur
        w1 == stopTracks(w, w.cam[i].streamRef)
        c == w.cam[i]
    IN  [w1 EXCEPT !.cam[i] = [Unmounted EXCEPT
                       !.streamRef = c.streamRef,
                       !.mediaRecorderRef = c.mediaRecorderRef,
                       !.recordingIntervalRef = c.recordingIntervalRef,
                       !.intervalOn = IF c.recordingIntervalRef # 0 THEN FALSE ELSE c.intervalOn,
                       !.acq = c.acq,
                       !.cdWait = c.cdWait,
                       !.ticks = c.ticks,
                       !.seqTimer = c.seqTimer],
                   !.cur = 0]

(* App.tsx lines 20-30 *)
handleFileSelect(w, file) ==
    LET w1 == createObjectURL(w, file, "App")
    IN
    [w1 EXCEPT !.selectedFile = file,
              !.videoUrl = objectUrl(w1),
              !.status = "IDLE",
              !.result = NoResult,
              !.errorMsg = Null,
              !.inputMode = "MENU"]

(* lines 166-175 *)
stopRecording(w, i) ==
    LET s == w.cam[i].mediaRecorderRef
    IN  IF s # 0 /\ w.rec[s].state = "recording"
        THEN LET w1 == [w EXCEPT !.rec[s].state = "inactive",
                                 !.rec[s].stopQueued = TRUE,
                                 !.rec[s].endedBy = "stop"]
                 w2 == SetCam(w1, i, [isRecording |-> FALSE])
             IN  IF w2.cam[i].recordingIntervalRef # 0
                 THEN [w2 EXCEPT !.cam[i].intervalOn = FALSE,
                                 !.cam[i].recordingIntervalRef = 0]
                 ELSE w2
        ELSE w

(* lines 155-163: one tick of the interval, the updater of setRecordingTime *)
recordingTick(w, i) ==
    LET w1 == [w EXCEPT !.cam[i].recTicks = @ + 1]
    IN  IF w1.cam[i].recordingTime >= MaxRecordingTime
        THEN SetCam(stopRecording(w1, i), i, [recordingTime |-> MaxRecordingTime])
        ELSE SetCam(w1, i, [recordingTime |-> w1.cam[i].recordingTime + 1])

(* A faulty variant of startRecording: the stream is taken from streamRef, which
   outlives the video element *)
startRecordingFromStreamRef(w, i) ==
    IF w.cam[i].streamRef = 0
    THEN w
    ELSE LET s == Len(w.rec) + 1
             mediaRecorder ==
                 [state |-> "recording", stopQueued |-> FALSE, inst |-> i,
                  stream |-> w.cam[i].streamRef, captured |-> 0, endedBy |-> "",
                  timer |-> w.cam[i].seqTimer, ticks |-> w.cam[i].ticks]
             w1 == [w EXCEPT !.rec = Append(@, mediaRecorder),
                             !.cam[i].mediaRecorderRef = s]
             w2 == SetCam(w1, i, [isRecording |-> TRUE, recordingTime |-> 0])
         IN  [w2 EXCEPT !.cam[i].recordingIntervalRef = 1,
                        !.cam[i].intervalOn = TRUE,
                        !.cam[i].recTicks = 0]

(* lines 124-164.  A MediaRecorder: state and the queued stop event are the
   browser's; inst, stream and the rest are history: the instance and stream
   it records, the onCapture calls of its onstop, what ended it (a stop()
   call or its tracks ending), and the countdown that preceded it *)
startRecording(w, i) ==
    IF ~(w.cam[i].videoEl /\ w.cam[i].srcObject # 0)
    THEN w
    ELSE LET s == Len(w.rec) + 1
             mediaRecorder ==
                 [state |-> "recording", stopQueued |-> FALSE, inst |-> i,
                  stream |-> w.cam[i].srcObject, captured |-> 0, endedBy |-> "",
                  timer |-> w.cam[i].seqTimer, ticks |-> w.cam[i].ticks]
             w1 == [w EXCEPT !.rec = Append(@, mediaRecorder),
                             !.cam[i].mediaRecorderRef = s]
             w2 == SetCam(w1, i, [isRecording |-> TRUE, recordingTime |-> 0])
         IN  [w2 EXCEPT !.cam[i].recordingIntervalRef = 1,
                        !.cam[i].intervalOn = TRUE,
                        !.cam[i].recTicks = 0]

(* A faulty variant of onstop: the file is built and never handed to onCapture *)
onstopDropsFile(w, s) ==
    [w EXCEPT !.rec[s].stopQueued = FALSE]

(* lines 144-148: mediaRecorder.onstop of session s *)
onstop(w, s) ==
    handleFileSelect([w EXCEPT !.rec[s].stopQueued = FALSE,
                               !.rec[s].captured = @ + 1],
                     RecordedFile(s))

(* A faulty variant of handleStartSequence: isCountingDown is not set *)
handleStartSequenceUnflagged(w, i) ==
    IF ~(w.cam[i].videoEl /\ w.cam[i].srcObject # 0)
    THEN w
    ELSE IF w.cam[i].useTimer
    THEN [SetCam(w, i, [countdownValue |-> CountdownFrom])
             EXCEPT !.cam[i].cdWait = CountdownFrom,
                    !.cam[i].ticks = <<CountdownFrom>>,
                    !.cam[i].seqTimer = TRUE]
    ELSE startRecording([w EXCEPT !.cam[i].ticks = <<>>, !.cam[i].seqTimer = FALSE], i)

(* lines 105-113: handleStartSequence up to its first await *)
handleStartSequence(w, i) ==
    IF ~(w.cam[i].videoEl /\ w.cam[i].srcObject # 0)
    THEN w
    ELSE IF w.cam[i].useTimer
    THEN [SetCam(w, i, [isCountingDown |-> TRUE, countdownValue |-> CountdownFrom])
             EXCEPT !.cam[i].cdWait = CountdownFrom,
                    !.cam[i].ticks = <<CountdownFrom>>,
                    !.cam[i].seqTimer = TRUE]
    ELSE startRecording([w EXCEPT !.cam[i].ticks = <<>>, !.cam[i].seqTimer = FALSE], i)

(* A faulty variant of countdownStep: the loop ends one value early (i > 1) *)
countdownStepEarly(w, i) ==
    LET k == w.cam[i].cdWait
    IN  IF k > 2
        THEN [SetCam(w, i, [countdownValue |-> k - 1])
                 EXCEPT !.cam[i].cdWait = k - 1,
                        !.cam[i].ticks = Append(@, k - 1)]
        ELSE startRecording(
                 [SetCam(w, i, [countdownValue |-> 0, isCountingDown |-> FALSE])
                     EXCEPT !.cam[i].cdWait = 0], i)

(* lines 110-121: the continuation after one wait of the countdown *)
countdownStep(w, i) ==
    LET k == w.cam[i].cdWait
    IN  IF k > 1
        THEN [SetCam(w, i, [countdownValue |-> k - 1])
                 EXCEPT !.cam[i].cdWait = k - 1,
                        !.cam[i].ticks = Append(@, k - 1)]
        ELSE startRecording(
                 [SetCam(w, i, [countdownValue |-> 0, isCountingDown |-> FALSE])
                     EXCEPT !.cam[i].cdWait = 0], i)

(* App.tsx line 206: the camera view is rendered *)
CameraRendered(w) == w.selectedFile = NoFile /\ w.inputMode = "CAMERA"

(* App.tsx line 186: the upload view is rendered *)
UploaderRendered(w) == w.selectedFile = NoFile /\ w.inputMode = "UPLOAD"

(* VideoUploader.tsx lines 8-10: a VideoUploader as first rendered, and none.
   lastDrop is history: "ignored" once a drop was turned down by handleDrop's
   test of the MIME type.  React drops the state of an unmounted component. *)
NewUploader == [mounted |-> TRUE, preview |-> NoUrl, lastDrop |-> ""]
NoUploader == [mounted |-> FALSE, preview |-> NoUrl, lastDrop |-> ""]

commitUploader(w) ==
    IF ~UploaderRendered(w) THEN [w EXCEPT !.uploader = NoUploader]
    ELSE IF w.uploader.mounted THEN w
    ELSE [w EXCEPT !.uploader = NewUploader]

(* A faulty variant of urlEffectCleanup: the old URL is never revoked *)
urlEffectCleanupNever(w, prev) == w

(* App.tsx lines 32-37: the cleanup of the effect on [videoUrl], run by the
   render in which videoUrl differs from prev, its value in the last render *)
urlEffectCleanup(w, prev) ==
    IF w.videoUrl # prev THEN revokeObjectURL(w, prev) ELSE w

(* App.tsx lines 290-292: the result view is rendered *)
ResultViewRendered(w) ==
    w.result # NoResult /\ w.status = "SUCCESS" /\ w.videoUrl # NoUrl

(* geminiService.ts line 181 and lines 391-393: the coaching-text languages *)
Languages == {"en", "mk", "es"}

(* What an export leaves behind: nothing yet, the notice of line 204, or the
   document written to the print window; TypeError is a thrown TypeError *)
NoDoc == [kind |-> "none"]
PopupNotice == [kind |-> "alert", message |-> "Please allow popups to export the PDF."]
TypeError == [kind |-> "throw"]

(* geminiService.ts lines 180-181: an AnalysisResult as first rendered (useState
   language 'en'), and none.  doc is what the last export of this mount left. *)
NewView == [mounted |-> TRUE, language |-> "en", doc |-> NoDoc]
NoView == [mounted |-> FALSE, language |-> "en", doc |-> NoDoc]

(* A faulty variant of commitView: the view is mounted anew by every render *)
commitViewAnew(w) ==
    IF ~ResultViewRendered(w) THEN [w EXCEPT !.view = NoView]
    ELSE [w EXCEPT !.view = NewView]

commitView(w) ==
    IF ~ResultViewRendered(w) THEN [w EXCEPT !.view = NoView]
    ELSE IF w.view.mounted THEN w
    ELSE [w EXCEPT !.view = NewView]

(* A faulty variant of withDefault: the field is taken as it is *)
withDefaultIgnored(v, d) == v

(* lines 184-192: the default of a destructured field replaces undefined *)
withDefault(v, d) == IF v = Undefined THEN d ELSE v

(* lines 184-192: the destructuring of data *)
destructure(data) ==
    [form_score |-> withDefault(data.form_score, Num(0)),
     score_label |-> withDefault(data.score_label, Str("N/A")),
     action_detected |-> withDefault(data.action_detected, Str("Unknown")),
     key_strengths |-> withDefault(data.key_strengths, Arr(<<>>)),
     areas_for_improvement |-> withDefault(data.areas_for_improvement, Arr(<<>>)),
     technical_data |-> data.technical_data,
     coaching_tips |->
         withDefault(data.coaching_tips, Obj([en |-> "", mk |-> "", es |-> ""]))]

(* .map of lines 216, 235, 461, 475 and the index of lines 293, 410 throw a
   TypeError on undefined *)
TypeErrorIn(p) ==
    \/ p.key_strengths = Undefined
    \/ p.areas_for_improvement = Undefined
    \/ p.coaching_tips = Undefined

(* lines 195-199 *)
getScoreColor(s) ==
    IF s # Undefined /\ s.v >= 8 THEN "text-emerald-400"
    ELSE IF s # Undefined /\ s.v >= 5 THEN "text-yellow-400"
    ELSE "text-red-400"

(* lines 209-213 *)
getPdfScoreColor(s) ==
    IF s # Undefined /\ s.v >= 8 THEN "#10b981"
    ELSE IF s # Undefined /\ s.v >= 5 THEN "#f59e0b"
    ELSE "#ef4444"

(* lines 352-527: what AnalysisResult renders of data in the given language.
   biometrics is undefined when the card of line 425 is left out; of an
   improvement the card keeps whether it is marked critical, its drill and
   its steps *)
render(data, language) ==
    LET p == destructure(data)
    IN  IF TypeErrorIn(p) THEN TypeError
        ELSE [kind |-> "screen",
              action |-> p.action_detected,
              label |-> p.score_label,
              score |-> p.form_score,
              color |-> getScoreColor(p.form_score),
              language |-> language,
              tip |-> p.coaching_tips.v[language],
              biometrics |-> p.technical_data,
              strengths |-> p.key_strengths.v,
              drills |-> [k \in 1..Len(p.areas_for_improvement.v) |->
                  LET item == p.areas_for_improvement.v[k]
                  IN  [critical |-> startsWith(toLowerCase(item.issue), "critical:"),
                       drill |-> item.drill,
                       steps |-> item.instructions]]]

(* lines 208-350: the document handleExportPDF writes to the print window *)
exportDocument(data, language) ==
    LET p == destructure(data)
    IN  IF TypeErrorIn(p) THEN TypeError
        ELSE [kind |-> "document",
              action |-> p.action_detected,
              label |-> p.score_label,
              score |-> p.form_score,
              color |-> getPdfScoreColor(p.form_score),
              language |-> language,
              tip |-> p.coaching_tips.v[language],
              biometrics |-> p.technical_data,
              strengths |-> p.key_strengths.v,
              drills |-> [k \in 1..Len(p.areas_for_improvement.v) |->
                  LET item == p.areas_for_improvement.v[k]
                  IN  [critical |-> includes(toLowerCase(item.issue), "critical"),
                       drill |-> item.drill,
                       steps |-> item.instructions]]]

(* lines 201-206: handleExportPDF; popup is whether window.open gave a window *)
handleExportPDF(w, popup) ==
    IF ~popup
    THEN [w EXCEPT !.view.doc = PopupNotice]
    ELSE [w EXCEPT !.view.doc = exportDocument(w.result.body, w.view.language)]

(* line 395: onClick of a language button *)
setLanguage(w, lang) == [w EXCEPT !.view.language = lang]

(* The render after a handler: CameraCapture is mounted or unmounted as the
   guard of App.tsx line 206 changes, VideoUploader as that of line 186,
   AnalysisResult as that of line 290 *)
Commit(w) ==
    LET w1 == commitView(commitUploader(w))
    IN  IF CameraRendered(w1) /\ w1.cur = 0 THEN mountCamera(w1)
        ELSE IF ~CameraRendered(w1) /\ w1.cur # 0 THEN cleanupCamera(w1)
        ELSE w1

----------------------------------------------------------------------------
(* Application State Controller: handlers *)

(* lines 39-46: handleAnalyze up to its await *)
handleAnalyze(w) ==
    IF w.selectedFile = NoFile
    THEN w
    ELSE [w EXCEPT !.status = "ANALYZING",
                   !.errorMsg = Null,
                   !.nReq = @ + 1,
                   !.requests = @ \cup {analyzeVideoStart(w, w.nReq + 1, w.selectedFile)}]

(* lines 55-82: the catch block *)
handleAnalyzeCatch(w, r, err) ==
    [w EXCEPT !.requests = @ \ {r},
              !.status = "ERROR",
              !.errorMsg = catchMessageOf[err]]

(* A faulty variant of handleAnalyzeReturned: the status of the response is
   not looked at *)
handleAnalyzeReturnedNoCheck(w, r, data) ==
    [w EXCEPT !.requests = @ \ {r},
              !.result = [status |-> data.status, file |-> r.file, body |-> data.body],
              !.status = "SUCCESS"]

(* lines 46-54: analyzeVideo returned data *)
handleAnalyzeReturned(w, r, data) ==
    IF data.status = "error"
    THEN handleAnalyzeCatch(w, r, Err(UnclearMsg))
    ELSE [w EXCEPT !.requests = @ \ {r},
                   !.result = [status |-> data.status, file |-> r.file, body |-> data.body],
                   !.status = "SUCCESS"]

(* A faulty variant of resetApp: the selected file and its URL are kept *)
resetAppKeepsFile(w) ==
    [w EXCEPT !.result = NoResult,
              !.status = "IDLE",
              !.inputMode = "MENU",
              !.errorMsg = Null]

(* lines 85-92 *)
resetApp(w) ==
    [w EXCEPT !.result = NoResult,
              !.selectedFile = NoFile,
              !.videoUrl = NoUrl,
              !.status = "IDLE",
              !.inputMode = "MENU",
              !.errorMsg = Null]

(* A faulty variant of tryAgain: the phase is left as it is *)
tryAgainStays(w) == w

(* line 281: the error banner's Try Again *)
tryAgain(w) == [w EXCEPT !.status = "IDLE"]

(* VideoUploader.tsx lines 12-20 *)
handleFileChange(w, file) ==
    LET w1 == createObjectURL(w, file, "VideoUploader")
    IN  handleFileSelect([w1 EXCEPT !.uploader.preview = objectUrl(w1)], file)

(* VideoUploader.tsx lines 34-39: the clear button of the preview; the value
   of the file input is not part of the state *)
clearSelection(w) == [w EXCEPT !.uploader.preview = NoUrl]

(* VideoUploader.tsx lines 43, 78: the preview with its clear button is shown *)
ClearButton(w) ==
    w.uploader.mounted /\ w.uploader.preview # NoUrl /\ w.status # "ANALYZING"

(* A faulty variant of handleDrop: the MIME type is not looked at *)
handleDropAnyType(w, file, isLoading) ==
    IF isLoading THEN w ELSE handleFileChange(w, file)

(* VideoUploader.tsx lines 22-32 *)
handleDrop(w, file, isLoading) ==
    IF isLoading THEN w
    ELSE IF startsWith(file.type, "video/")
    THEN LET w1 == createObjectURL(w, file, "VideoUploader")
         IN  handleFileSelect([w1 EXCEPT !.uploader.preview = objectUrl(w1)], file)
    ELSE [w EXCEPT !.uploader.lastDrop = "ignored"]

----------------------------------------------------------------------------
(* What the current render shows *)

MenuRendered == selectedFile = NoFile /\ inputMode = "MENU"
UploadRendered == UploaderRendered(St)
(* A faulty variant of ReviewRendered: the phase is not looked at *)
ReviewRenderedInAnyPhase == selectedFile # NoFile /\ result = NoResult

ReviewRendered == selectedFile # NoFile /\ result = NoResult /\ status # "ANALYZING"
LoadingRendered == status = "ANALYZING"
ErrorRendered == status = "ERROR"
ResultRendered == result # NoResult /\ status = "SUCCESS" /\ videoUrl # NoUrl

CameraErrorView == cur # 0 /\ cam[cur].error # Null
CameraView == cur # 0 /\ cam[cur].error = Null
CameraControls == CameraView /\ ~cam[cur].isRecording /\ ~cam[cur].isCountingDown
StopButton == CameraView /\ ~CameraControls /\ cam[cur].isRecording

(* A settled promise whose continuation in analyzeVideo or handleAnalyze has
   not run yet: the continuation is a microtask, it runs before any other task *)
NoMicrotask == \A r \in requests : r.pc \notin {"rejected", "responded"}

Step(w) == Apply(Commit(urlEffectCleanup(w, videoUrl)))

(* The handleFileSelect calls so far: each created one URL for the App *)
Selections == Cardinality({u \in 1..Len(urls) : urls[u].by = "App"})

----------------------------------------------------------------------------
(* Initial state *)

Init ==
    /\ status = "IDLE"
    /\ inputMode = "MENU"
    /\ result = NoResult
    /\ selectedFile = NoFile
    /\ videoUrl = NoUrl
    /\ errorMsg = Null
    /\ env \in [apiKey : BOOLEAN, mediaDevices : BOOLEAN]
    /\ requests = {}
    /\ nReq = 0
    /\ cam = <<>>
    /\ cur = 0
    /\ rec = <<>>
    /\ streams = <<>>
    /\ urls = <<>>
    /\ uploader = NoUploader
    /\ view = NoView

----------------------------------------------------------------------------
(* Actions of the Application State Controller *)

ClickUploadCard ==
    /\ NoMicrotask /\ MenuRendered
    /\ Step([St EXCEPT !.inputMode = "UPLOAD"])

ClickRecordCard ==
    /\ NoMicrotask /\ MenuRendered
    /\ Len(cam) < MaxMounts
    /\ Step([St EXCEPT !.inputMode = "CAMERA"])

ClickBackToMenu ==
    /\ NoMicrotask /\ (UploadRendered \/ CameraRendered(St))
    /\ Step([St EXCEPT !.inputMode = "MENU"])

ClickHeader ==
    /\ NoMicrotask
    /\ Step(resetApp(St))

ClickChangeVideo ==
    /\ NoMicrotask /\ ReviewRendered
    /\ Step(resetApp(St))

ClickAnalyze ==
    /\ NoMicrotask /\ ReviewRendered
    /\ nReq < MaxRequests
    /\ Step(handleAnalyze(St))

ClickTryAgain ==
    /\ NoMicrotask /\ ErrorRendered
    /\ Step(tryAgain(St))

PickFile ==
    /\ NoMicrotask /\ UploadRendered /\ status # "ANALYZING"
    /\ Selections < MaxSelections
    /\ \E file \in UploadFiles : Step(handleFileChange(St, file))

DropFile ==
    /\ NoMicrotask /\ UploadRendered
    /\ Selections < MaxSelections
    /\ \E file \in UploadFiles :
           Step(handleDrop(St, file, status = "ANALYZING"))

(* Steps of analyzeVideo: a request r is at pc "encode" while
   fileToGenerativePart runs, at "request" while generateContent is awaited,
   at "responded" when generateContent resolved with r.text, and at "rejected"
   when analyzeVideo is about to throw r.err *)

EncodeDone ==
    /\ NoMicrotask
    /\ \E r \in requests :
        /\ r.pc = "encode"
        /\ Step(generateContent(St, r))

EncodeFailed ==
    /\ NoMicrotask
    /\ \E r \in requests, err \in EncodeErrors :
        /\ r.pc = "encode"
        /\ Step(fileToGenerativePartRejected(St, r, err))

RequestFailed ==
    /\ NoMicrotask
    /\ \E r \in requests, err \in TransportErrors :
        /\ r.pc = "request"
        /\ Step(generateContentRejected(St, r, err))

ResponseArrived ==
    /\ NoMicrotask
    /\ \E r \in requests, text \in ResponseTexts :
        /\ r.pc = "request"
        /\ Step(generateContentResolved(St, r, text))

(* The continuations of handleAnalyze *)

AnalyzeVideoThrew ==
    \E r \in requests :
        /\ r.pc = "rejected"
        /\ Step(handleAnalyzeCatch(St, r, r.err))

AnalyzeVideoResponded ==
    \E r \in requests :
        /\ r.pc = "responded"
        /\ LET out == analyzeVideoRespond(r.text)
           IN  IF out.kind = "return"
               THEN Step(handleAnalyzeReturned(St, r, out.data))
               ELSE Step(handleAnalyzeCatch(St, r, out.err))

----------------------------------------------------------------------------
(* Actions of the Media Capture Controller *)

GetUserMediaResolved ==
    /\ NoMicrotask
    /\ \E i \in 1..Len(cam) :
        /\ cam[i].acq
        /\ Step(startCameraResolved(St, i))

GetUserMediaRejected ==
    /\ NoMicrotask
    /\ \E i \in 1..Len(cam), err \in CameraErrors :
        /\ cam[i].acq
        /\ Step(startCameraRejected(St, i, err))

ClickCameraRetry ==
    /\ NoMicrotask /\ CameraErrorView
    /\ Step(startCamera(St, cur))

ClickCameraGoBack ==
    /\ NoMicrotask /\ CameraErrorView
    /\ Step([St EXCEPT !.inputMode = "MENU"])

ClickCameraCancel ==
    /\ NoMicrotask /\ CameraControls
    /\ Step([St EXCEPT !.inputMode = "MENU"])

ClickTimerToggle ==
    /\ NoMicrotask /\ CameraControls
    /\ Step(SetCam(St, cur, [useTimer |-> ~cam[cur].useTimer]))

ClickStart ==
    /\ NoMicrotask /\ CameraControls
    /\ Len(rec) < MaxSessions
    /\ Step(handleStartSequence(St, cur))

CountdownTimeout ==
    /\ NoMicrotask
    /\ \E i \in 1..Len(cam) :
        /\ cam[i].cdWait > 0
        /\ Step(countdownStep(St, i))

RecordingInterval ==
    /\ NoMicrotask
    /\ \E i \in 1..Len(cam) :
        /\ cam[i].intervalOn
        /\ Step(recordingTick(St, i))

ClickStop ==
    /\ NoMicrotask /\ StopButton
    /\ Step(stopRecording(St, cur))

(* MediaRecorder: a recorder whose stream's tracks have all ended stops itself
   and queues its stop event *)
RecorderTracksEnded ==
    /\ NoMicrotask
    /\ \E s \in 1..Len(rec) :
        /\ rec[s].state = "recording"
        /\ streams[rec[s].stream] = "stopped"
        /\ Step([St EXCEPT !.rec[s].state = "inactive",
                            !.rec[s].stopQueued = TRUE,
                            !.rec[s].endedBy = "tracks"])

RecorderStopEvent ==
    /\ NoMicrotask
    /\ \E s \in 1..Len(rec) :
        /\ rec[s].stopQueued
        /\ Selections < MaxSelections
        /\ Step(onstop(St, s))

(* Actions of the result view *)

ClickLanguage ==
    /\ NoMicrotask /\ view.mounted
    /\ \E lang \in Languages : Step(setLanguage(St, lang))

ClickExport ==
    /\ NoMicrotask /\ view.mounted
    /\ \E popup \in BOOLEAN : Step(handleExportPDF(St, popup))

----------------------------------------------------------------------------
Next ==
    \/ ClickUploadCard \/ ClickRecordCard \/ ClickBackToMenu \/ ClickHeader
    \/ ClickChangeVideo \/ ClickAnalyze \/ ClickTryAgain \/ PickFile \/ DropFile
    \/ EncodeDone \/ EncodeFailed \/ RequestFailed \/ ResponseArrived
    \/ AnalyzeVideoThrew \/ AnalyzeVideoResponded
    \/ ClickLanguage \/ ClickExport
    \/ GetUserMediaResolved \/ GetUserMediaRejected \/ ClickCameraRetry
    \/ ClickCameraGoBack \/ ClickCameraCancel \/ ClickTimerToggle \/ ClickStart
    \/ CountdownTimeout \/ RecordingInterval \/ ClickStop
    \/ RecorderTracksEnded \/ RecorderStopEvent

Spec == Init /\ [][Next]_vars

(* The capture flow alone: the user never asks for an analysis.  No handler of
   CameraCapture.tsx reads status, result, errorMsg or the requests. *)
NextCapture ==
    \/ ClickUploadCard \/ ClickRecordCard \/ ClickBackToMenu \/ ClickHeader
    \/ ClickChangeVideo \/ PickFile \/ DropFile
    \/ GetUserMediaResolved \/ GetUserMediaRejected \/ ClickCameraRetry
    \/ ClickCameraGoBack \/ ClickCameraCancel \/ ClickTimerToggle \/ ClickStart
    \/ CountdownTimeout \/ RecordingInterval \/ ClickStop
    \/ RecorderTracksEnded \/ RecorderStopEvent

SpecCapture == Init /\ [][NextCapture]_vars

(* The analysis flow alone: files come from the uploader, the camera view is
   never opened. *)
NextAnalysis ==
    \/ ClickUploadCard \/ ClickBackToMenu \/ ClickHeader
    \/ ClickChangeVideo \/ ClickAnalyze \/ ClickTryAgain \/ PickFile \/ DropFile
    \/ EncodeDone \/ EncodeFailed \/ RequestFailed \/ ResponseArrived
    \/ AnalyzeVideoThrew \/ AnalyzeVideoResponded
    \/ ClickLanguage \/ ClickExport

SpecAnalysis == Init /\ [][NextAnalysis]_vars

(* The flows in which an error is shown: files are picked in the uploader and
   analyzed, the camera view is opened and its acquisition fails; the user
   leaves a view by the header or by the error view's Go Back *)
NextErrors ==
    \/ ClickUploadCard \/ ClickHeader
    \/ ClickAnalyze \/ ClickTryAgain \/ PickFile
    \/ EncodeDone \/ EncodeFailed \/ RequestFailed \/ ResponseArrived
    \/ AnalyzeVideoThrew \/ AnalyzeVideoResponded
    \/ ClickRecordCard \/ GetUserMediaRejected
    \/ ClickCameraRetry \/ ClickCameraGoBack

SpecErrors == Init /\ [][NextErrors]_vars

(* The result view alone, over every success response: the state after the
   upload view was opened, a video picked, Analyze clicked and analyzeVideo
   returned a success response with any of its optional fields present *)
Rendered(w, w2) == Commit(urlEffectCleanup(w2, w.videoUrl))

AfterAnalysis(data) ==
    LET w0 == [status |-> "IDLE", inputMode |-> "MENU", result |-> NoResult,
               selectedFile |-> NoFile, videoUrl |-> NoUrl, errorMsg |-> Null,
               env |-> [apiKey |-> TRUE, mediaDevices |-> TRUE],
               requests |-> {}, nReq |-> 0, cam |-> <<>>, cur |-> 0, rec |-> <<>>,
               streams |-> <<>>, urls |-> <<>>, uploader |-> NoUploader,
               view |-> NoView]
        w1 == Rendered(w0, [w0 EXCEPT !.inputMode = "UPLOAD"])
        w2 == Rendered(w1, handleFileChange(w1,
                  [src |-> "upload", id |-> 1, type |-> "video/mp4"]))
        w3 == Rendered(w2, handleAnalyze(w2))
        r == CHOOSE q \in w3.requests : TRUE
    IN  Rendered(w3, handleAnalyzeReturned(w3, r, data))

InitRender ==
    \E present \in SUBSET OptionalFields :
        LET w == AfterAnalysis([status |-> "success", body |-> Body(present)])
        IN  /\ status = w.status
            /\ inputMode = w.inputMode
            /\ result = w.result
            /\ selectedFile = w.selectedFile
            /\ videoUrl = w.videoUrl
            /\ errorMsg = w.errorMsg
            /\ env = w.env
            /\ requests = w.requests
            /\ nReq = w.nReq
            /\ cam = w.cam
            /\ cur = w.cur
            /\ rec = w.rec
            /\ streams = w.streams
            /\ urls = w.urls
            /\ uploader = w.uploader
            /\ view = w.view

NextRender == ClickLanguage \/ ClickExport

SpecRender == InitRender /\ [][NextRender]_vars

----------------------------------------------------------------------------
(* Claims *)

Sessions == 1..Len(rec)
Instances == 1..Len(cam)
Recording(i) ==
    cam[i].mediaRecorderRef # 0 /\ rec[cam[i].mediaRecorderRef].state = "recording"

(* C1: a recording that is not stopped by hand is no longer recording once 10
   ticks of the one-second recording timer have fired since it started. *)
C1_StoppedAfterTenTicks ==
    \A i \in Instances : cam[i].recTicks >= MaxRecordingTime => ~Recording(i)

(* C2: every recording session hands its file to onCapture exactly once: never
   twice, not before the session has ended, and once its stop event has been
   delivered exactly one file has been handed over, whether the session was
   ended by a stop() call (manual or automatic) or by its tracks ending. *)
C2_CapturedExactlyOnce ==
    \A s \in Sessions :
        /\ rec[s].captured <= 1
        /\ (rec[s].state = "recording" \/ rec[s].stopQueued) => rec[s].captured = 0
        /\ (rec[s].state = "inactive" /\ ~rec[s].stopQueued) => rec[s].captured = 1

C2_Witness ==
    \E s \in Sessions :
        /\ rec[s].state = "inactive" /\ ~rec[s].stopQueued
        /\ rec[s].endedBy = "stop"
        /\ rec[s].captured = 1
        /\ selectedFile = RecordedFile(s)

(* C3: with the timer enabled a start sequence emits the countdown values
   5, 4, 3, 2, 1 in that order, one per one-second wait, and the recorder is
   started only when the wait of the value 1 has completed; with the timer
   disabled the recorder is started with no value emitted and the countdown state
   is not entered. *)
CountdownValues == [j \in 1..CountdownFrom |-> CountdownFrom + 1 - j]

C3_Countdown ==
    /\ \A s \in Sessions :
           rec[s].ticks = IF rec[s].timer THEN CountdownValues ELSE <<>>
    /\ \A i \in Instances :
           /\ cam[i].cdWait > 0 =>
                 /\ ~Recording(i)
                 /\ cam[i].seqTimer
                 /\ cam[i].ticks = SubSeq(CountdownValues, 1, CountdownFrom + 1 - cam[i].cdWait)
           /\ (cam[i].mounted /\ cam[i].isCountingDown) =>
                 /\ cam[i].cdWait > 0
                 /\ cam[i].countdownValue = cam[i].cdWait
           /\ (cam[i].mounted /\ cam[i].cdWait > 0) => cam[i].isCountingDown

C3_Witness ==
    \E s \in Sessions :
        /\ rec[s].state = "recording"
        /\ rec[s].timer
        /\ rec[s].ticks = <<5, 4, 3, 2, 1>>

(* C4: when the capture view is torn down while a countdown or a recording is
   in progress, every track of its stream is stopped and no timer of the
   controller is left pending: no countdown wait and no recording interval. *)
C4_TeardownLeavesNoTimer ==
    [][(cur # 0 /\ cur' = 0 /\ (cam[cur].isCountingDown \/ cam[cur].isRecording)) =>
          /\ cam'[cur].cdWait = 0
          /\ ~cam'[cur].intervalOn
          /\ cam'[cur].streamRef # 0
          /\ streams'[cam'[cur].streamRef] = "stopped"]_vars

(* C5: the stop event of a recorder that was ended by the teardown of its
   capture view (its tracks were stopped while it was recording) does not
   change the state of the Application State Controller. *)
C5_StaleFinalizeChangesNothing ==
    [][\A s \in Sessions :
          (rec[s].stopQueued /\ ~rec'[s].stopQueued /\ rec[s].endedBy = "tracks"
           /\ ~cam[rec[s].inst].mounted) =>
              UNCHANGED <<status, inputMode, result, selectedFile, videoUrl, errorMsg>>]_vars

(* C6: when a request completes (returns or throws) in the state a reset left
   (idle, no file, no result, no error message), phase, result and error
   message stay as they are. *)
C6_StaleCompletionChangesNothing ==
    [][(/\ \E r \in requests : requests' = requests \ {r}
        /\ selectedFile = NoFile /\ status = "IDLE"
        /\ result = NoResult /\ errorMsg = Null) =>
          (status' = "IDLE" /\ result' = NoResult /\ errorMsg' = Null)]_vars

(* C7: at most one analysis request is in flight at any time. *)
C7_OneRequestInFlight ==
    Cardinality({r \in requests : r.pc = "request"}) <= 1

(* C8: the phase becomes analyzing only from idle with a file staged, becomes
   success or error only from analyzing on the completion of a request, and
   becomes idle from success or error only by a reset action. *)
C8_TransitionTable ==
    [][(status' # status) =>
          /\ status' = "ANALYZING" => (status = "IDLE" /\ selectedFile # NoFile)
          /\ status' \in {"SUCCESS", "ERROR"} =>
                (status = "ANALYZING" /\ \E r \in requests : requests' = requests \ {r})
          /\ (status' = "IDLE" /\ status \in {"SUCCESS", "ERROR"}) =>
                (ClickHeader \/ ClickChangeVideo \/ ClickTryAgain)]_vars

(* C9 as claimed: header reset, Change Video and Try Again, when they take the
   phase from success or error to idle, leave the selected file, the video
   URL, the result and the error message empty. *)
AllCleared ==
    selectedFile = NoFile /\ videoUrl = NoUrl /\ result = NoResult /\ errorMsg = Null

C10_ErrorStatusRoutedToError ==
    [][\A r \in requests :
          (r.pc = "responded" /\ JSONparse(r.text).ok
           /\ JSONparse(r.text).data.status = "error" /\ r \notin requests') =>
              /\ status' = "ERROR"
              /\ errorMsg' = UnclearMsg
              /\ result' = result
              /\ result'.status # "error"
              /\ ~ResultRendered']_vars

C10_Witness ==
    /\ status = "ERROR"
    /\ errorMsg = UnclearMsg
    /\ result = NoResult
    /\ selectedFile # NoFile

(* The failure a request is about to throw into the catch block of
   handleAnalyze, and the step in which that block handles it *)
Thrown(r) ==
    IF r.pc = "rejected" THEN r.err ELSE analyzeVideoRespond(r.text).err
Throws(r) ==
    r.pc = "rejected" \/ (r.pc = "responded" /\ analyzeVideoRespond(r.text).kind = "throw")
Caught(r) == r \in requests /\ Throws(r) /\ r \notin requests'

(* C11: when the adapter throws a failure whose message contains "429", the
   phase becomes error and the message shown is the fixed rate-limit message. *)
C11_RateLimitMessageFor429 ==
    [][\A r \in requests :
          (Caught(r) /\ includes(Thrown(r).message, "429")) =>
              (status' = "ERROR" /\ errorMsg' = RateLimitMsg)]_vars

(* The failure modes of the adapter itself *)
Mode(r) ==
    IF r.pc = "rejected" /\ r.read = 0 THEN "credentials"
    ELSE IF r.pc = "responded" /\ r.text = EmptyText THEN "empty"
    ELSE IF r.pc = "responded" /\ ~JSONparse(r.text).ok THEN "malformed"
    ELSE "other"

FixedMessages ==
    {UnclearMsg, UnexpectedMsg, ConfigMsg, SafetyMsg, RateLimitMsg, OverloadedMsg,
     NetworkMsg, DataMsg}

(* C12: a failure of one of the adapter's own modes (missing credentials,
   empty response body, malformed response body) is shown with a fixed message,
   never with the thrown text, and the messages of the three modes differ
   pairwise. *)
C12_OwnFailuresShownFixed ==
    [][\A r \in requests :
          (Caught(r) /\ Mode(r) # "other") =>
              /\ status' = "ERROR"
              /\ errorMsg' \in FixedMessages
              /\ errorMsg' # Thrown(r).message
              /\ \A r2 \in [pc : {"rejected", "responded"}, read : {0, 1},
                            text : ResponseTexts, err : ThrownErrors] :
                     (Throws(r2) /\ Mode(r2) \notin {"other", Mode(r)}) =>
                         errorMsg' # catchMessage(Thrown(r2))]_vars

(* C13: a stored result is a value whose status is success or error: a
   response body that is valid JSON without a valid status is never stored
   and never takes the phase to success. *)
C13_StoredResultConforms ==
    result # NoResult => result.status \in {"success", "error"}

(* The state after handleFileSelect(file) has run in the current state and
   the render has been committed *)
Selected(file) == Commit(urlEffectCleanup(handleFileSelect(St, file), videoUrl))

(* C14: in every state of the application, selecting a file (an uploaded or a
   recorded one) leaves the phase idle, the result and the error message
   empty, the new file staged with a new, unreleased video URL of that file,
   and the video URL that was current before released. *)
C14_SelectionResetsAndReleases ==
    \A file \in UploadFiles \cup {RecordedFile(1)} :
        LET w == Selected(file)
        IN  /\ w.status = "IDLE" /\ w.result = NoResult /\ w.errorMsg = Null
            /\ w.selectedFile = file
            /\ w.videoUrl.blob = file
            /\ w.videoUrl.id = Len(urls) + 1
            /\ w.videoUrl # videoUrl
            /\ ~w.urls[w.videoUrl.id].revoked
            /\ videoUrl # NoUrl => w.urls[videoUrl.id].revoked

(* a second file has been selected: the video URL of the first one is
   released, the URL of the second is current and not released *)
C14_Witness ==
    /\ Selections = 2
    /\ \E u \in 1..Len(urls) :
          urls[u].by = "App" /\ urls[u].revoked /\ u < videoUrl.id
    /\ status = "IDLE" /\ result = NoResult /\ errorMsg = Null
    /\ selectedFile # NoFile /\ videoUrl.blob = selectedFile
    /\ ~urls[videoUrl.id].revoked

(* C15: every object URL that has been created and is no longer current (it is
   neither the video URL of the Application State Controller nor the preview
   of a mounted File Intake) has been released. *)
C15_NoUrlLeftUnreleased ==
    \A u \in 1..Len(urls) :
        ~urls[u].revoked => (videoUrl.id = u \/ uploader.preview.id = u)

(* C16: while the phase is analyzing the review panel with the Analyze button
   is not rendered, and no handleAnalyze invocation starts in that phase. *)
C16_NoAnalyzeWhileAnalyzing ==
    /\ [](status = "ANALYZING" => ~ReviewRendered)
    /\ [][nReq' # nReq => (status # "ANALYZING" /\ ReviewRendered)]_vars

(* analyzing with a file staged and no result: only the phase hides the panel *)
C16_Witness ==
    /\ status = "ANALYZING"
    /\ selectedFile # NoFile /\ result = NoResult
    /\ requests # {}

(* C17: with the credential absent an invocation of analyzeVideo throws the
   missing-key failure at once, with no file read and no request sent, and
   when handleAnalyze catches it the phase becomes error and the message is
   the fixed configuration message. *)
C17_MissingKeyFailsFirst ==
    /\ [](~env.apiKey =>
            \A r \in requests :
                /\ r.pc = "rejected" /\ r.err = Err(ApiKeyMissingThrown)
                /\ r.read = 0 /\ r.sent = 0)
    /\ [][\A r \in requests :
             (~env.apiKey /\ Caught(r)) =>
                 (status' = "ERROR" /\ errorMsg' = ConfigMsg)]_vars

C17_Witness ==
    /\ ~env.apiKey
    /\ nReq > 0 /\ requests = {}
    /\ status = "ERROR" /\ errorMsg = ConfigMsg

(* C18: an invocation of analyzeVideo calls generateContent at most once:
   not before the file is encoded, exactly once when it has been, and not
   again after the request failed or was answered; and handleAnalyze is
   invoked only by a click on Analyze, never by the completion of a request. *)
C18_OneRequestPerInvocation ==
    /\ [](\A r \in requests :
            /\ r.sent <= 1
            /\ r.pc = "encode" => (r.read = 1 /\ r.sent = 0)
            /\ r.pc \in {"request", "responded"} => (r.read = 1 /\ r.sent = 1)
            /\ r.pc = "rejected" => r.sent <= r.read)
    /\ [][/\ nReq' # nReq => (ClickAnalyze /\ nReq' = nReq + 1)
          /\ \A r \in requests :
                r.pc \in {"rejected", "responded"} =>
                    (requests' = requests \ {r} /\ nReq' = nReq)]_vars

(* a request failed after it was sent once, and is thrown without a retry *)
C18_Witness ==
    \E r \in requests : r.pc = "rejected" /\ r.sent = 1 /\ r.err \in TransportErrors

(* C19: a failed acquisition is shown with one of the five messages of the
   categories, which differ pairwise; a failure that reports a dismissed
   permission request is shown with the dismissed message; and the retry
   button of the error view clears the error and starts a new acquisition. *)
CategoryMessages ==
    <<CameraDeniedMsg, CameraNotFoundMsg, CameraBusyMsg, CameraDismissedMsg, CameraDefaultMsg>>

C19_CameraFailuresClassified ==
    /\ [][\A i \in Instances, err \in CameraErrors :
             (/\ NoMicrotask /\ cam[i].acq /\ cam[i].mounted
              /\ Step(startCameraRejected(St, i, err))) =>
                 /\ \E k \in 1..5 : cam'[i].error = CategoryMessages[k]
                 /\ \A k, l \in 1..5 : k # l => CategoryMessages[k] # CategoryMessages[l]
                 /\ includes(toLowerCase(err.message), "dismissed") =>
                        cam'[i].error = CameraDismissedMsg]_vars
    /\ [][(ClickCameraRetry /\ env.mediaDevices) =>
             (cam'[cur].error = Null /\ cam'[cur].acq)]_vars

(* C20: a drop of a file whose MIME type does not start with "video/" on a
   File Intake that is not loading changes nothing but the record that a drop
   was ignored: no file is staged, no URL is created, the parent's state
   (phase, result, error message, input mode) is as before. *)
C20_NonVideoDropIgnored ==
    [][\A file \in UploadFiles :
          (/\ ~startsWith(file.type, "video/")
           /\ NoMicrotask /\ UploadRendered /\ status # "ANALYZING"
           /\ Step(handleDrop(St, file, FALSE))) =>
              /\ uploader' = [uploader EXCEPT !.lastDrop = "ignored"]
              /\ UNCHANGED <<status, inputMode, result, selectedFile, videoUrl,
                             errorMsg, urls, requests, nReq>>]_vars

C20_Witness ==
    /\ uploader.mounted /\ uploader.lastDrop = "ignored"
    /\ uploader.preview = NoUrl
    /\ selectedFile = NoFile /\ errorMsg = Null /\ urls = <<>>

(* C21: whenever a file selected through File Intake is staged, File Intake
   offers its clear action, and after that action File Intake has no preview
   and the Application State Controller has no staged file. *)
C21_ClearDropsFileAndPreview ==
    selectedFile.src = "upload" =>
        /\ ClearButton(St)
        /\ LET w == Commit(urlEffectCleanup(clearSelection(St), videoUrl))
           IN  w.uploader.preview = NoUrl /\ w.selectedFile = NoFile

(* C22: for every success result, whichever of its optional fields are absent,
   the result view and its export render without throwing, and an absent list
   of strengths or of improvements is rendered as the empty list, an absent
   score as 0 and an absent label as "N/A"; the same holds of the document the
   last export wrote. *)
DefaultsIn(b, out) ==
    /\ out # TypeError
    /\ b.key_strengths = Undefined => out.strengths = <<>>
    /\ b.areas_for_improvement = Undefined => out.drills = <<>>
    /\ b.form_score = Undefined => out.score = Num(0)
    /\ b.score_label = Undefined => out.label = Str("N/A")

C22_DefaultsSubstituted ==
    (view.mounted /\ result.status = "success") =>
        /\ DefaultsIn(result.body, render(result.body, view.language))
        /\ DefaultsIn(result.body, exportDocument(result.body, view.language))
        /\ view.doc.kind \notin {"none", "alert"} => DefaultsIn(result.body, view.doc)

C22_Witness ==
    /\ view.mounted /\ result.status = "success"
    /\ result.body.key_strengths = Undefined
    /\ result.body.areas_for_improvement = Undefined
    /\ result.body.form_score = Undefined
    /\ result.body.score_label = Undefined
    /\ result.body.coaching_tips = Undefined
    /\ result.body.technical_data # Undefined
    /\ view.doc.kind = "document"
    /\ view.doc.score = Num(0)

(* C24: the result view is mounted with language en; a click on a language
   button selects that language and changes nothing else (phase, result, staged
   video, its URL, error message, the requests sent and in flight are the same,
   as is everything outside the view), and the coaching text on screen after the
   click and in a document exported afterwards is the text of the result in
   the selected language. *)
TipOf(b, lang) == IF b.coaching_tips = Undefined THEN "" ELSE b.coaching_tips.v[lang]

LanguageClicked(lang) == Commit(urlEffectCleanup(setLanguage(St, lang), videoUrl))
Exported == Commit(urlEffectCleanup(handleExportPDF(St, TRUE), videoUrl))

C24_LanguageSwitchIsLocal ==
    /\ [][(~view.mounted /\ view'.mounted) => view'.language = "en"]_vars
    /\ [](view.mounted =>
            /\ \A lang \in Languages :
                   /\ LanguageClicked(lang) = [St EXCEPT !.view.language = lang]
                   /\ render(LanguageClicked(lang).result.body,
                             LanguageClicked(lang).view.language).tip
                          = TipOf(result.body, lang)
            /\ Exported.view.doc.language = view.language
            /\ Exported.view.doc.tip = TipOf(result.body, view.language))

C24_Witness ==
    /\ view.mounted /\ view.language = "mk"
    /\ result.body.coaching_tips # Undefined
    /\ render(result.body, view.language).tip = "Odlichen trud!"
    /\ view.doc.kind = "document" /\ view.doc.tip = "Odlichen trud!"

(* C23: whenever an error is shown, an action on offer leads to a usable state.
   On the camera error view Go Back leads to the menu and, where the browser
   has a camera API, Try Again starts a new acquisition with the error cleared.
   On the analysis error banner Try Again or the header leads to a state that is
   neither failed nor analyzing and in which either an intake view is rendered
   (a file can be staged) or the review panel is (the staged file can be
   analyzed); Try Again alone does so whenever no result is stored. *)
After(w) == Commit(urlEffectCleanup(w, videoUrl))

UsableIn(w) ==
    /\ w.status \notin {"ERROR", "ANALYZING"}
    /\ \/ w.selectedFile = NoFile /\ w.inputMode \in {"MENU", "UPLOAD", "CAMERA"}
       \/ w.selectedFile # NoFile /\ w.result = NoResult

C23_ErrorsOfferWayBack ==
    NoMicrotask =>
        /\ CameraErrorView =>
               /\ LET back == After([St EXCEPT !.inputMode = "MENU"])
                  IN  back.selectedFile = NoFile /\ back.inputMode = "MENU" /\ back.cur = 0
               /\ env.mediaDevices =>
                      LET retry == After(startCamera(St, cur))
                      IN  retry.cam[cur].acq /\ retry.cam[cur].error = Null
        /\ ErrorRendered =>
               /\ UsableIn(After(tryAgain(St))) \/ UsableIn(After(resetApp(St)))
               /\ result = NoResult => UsableIn(After(tryAgain(St)))

C23_Witness ==
    /\ NoMicrotask
    /\ ErrorRendered /\ UsableIn(After(tryAgain(St)))
    /\ CameraErrorView /\ env.mediaDevices
    /\ After(startCamera(St, cur)).cam[cur].acq

(* C25: whenever the result view is rendered, the result it shows was produced
   by the request for the staged file, the file the video URL refers to. *)
C25_ResultOfStagedVideo ==
    ResultRendered => (result.file = selectedFile /\ result.file = videoUrl.blob)

(* C26: in every state with a file staged, the review panel, the analyzing
   indicator, the error banner or the result view is rendered; and a result is
   stored only while the phase is success. *)
C26_StagedFileHasAView ==
    /\ selectedFile # NoFile =>
           (ReviewRendered \/ LoadingRendered \/ ErrorRendered \/ ResultRendered)
    /\ result # NoResult => status = "SUCCESS"

(* C27: every stream that is still open belongs to the capture view that is
   mounted: once a view is torn down, no stream it acquired is live, whether
   getUserMedia resolved before the teardown or after it. *)
C27_NoStreamOpenAfterTeardown ==
    \A sid \in 1..Len(streams) :
        streams[sid] = "live" => (cur # 0 /\ cam[cur].streamRef = sid)

(* C28: no step creates a recorder for a capture view that is torn down: the
   recorders of the view stay the ones it had at the teardown, so a countdown
   that was pending at the teardown never starts a recording, and no file of
   such a recording can be handed over. *)
RecordersOf(r, i) == {s \in 1..Len(r) : r[s].inst = i}

C28_NoRecordingAfterTeardown ==
    [][\A i \in Instances :
          ~cam[i].mounted =>
              /\ RecordersOf(rec', i) = RecordersOf(rec, i)
              /\ \A s \in RecordersOf(rec, i) : rec'[s].state # "recording" \/ rec[s].state = "recording"
      ]_vars

C28_Witness ==
    \E i \in Instances :
        /\ ~cam[i].mounted
        /\ cam[i].ticks = <<5, 4, 3, 2, 1>> /\ cam[i].cdWait = 0
        /\ cam[i].streamRef # 0
        /\ RecordersOf(rec, i) = {}
        /\ selectedFile = NoFile

(* C29: a mounted capture view is never counting down and recording at once,
   neither by its flags nor in fact (a countdown wait pending while its
   recorder records); while its countdown or its recording is in progress the
   controls that start a sequence, toggle the timer or cancel are not rendered;
   and at most one recorder is recording a live stream. *)
InProgress(i) == cam[i].cdWait > 0 \/ Recording(i)
Active(s) == rec[s].state = "recording" /\ streams[rec[s].stream] = "live"

====
